---- MODULE Spec2Model ----
(***************************************************************************)
(* Model of src/server.py: an extraction script that obtains an OAuth      *)
(* token, counts and downloads the pages of each endpoint into CSV files,  *)
(* merges them, reshapes the Company Profiles rows and loads the merged    *)
(* files into a database.                                                  *)
(*                                                                         *)
(* Three specifications share the variables:                               *)
(*   SpecSearch   binary_page_search, one probe per step, ceiling 2^20     *)
(*   SpecReshape  transform_data applied to bounded profile rows           *)
(*   Spec         the whole run, token request to database load            *)
(***************************************************************************)
EXTENDS Integers, Sequences, FiniteSets, TLC

(***************************************************************************)
(* Bounds of the model.                                                    *)
(***************************************************************************)
\* Boundaries K of the monotone source are sampled within KSpan of 0, of
\* the first midpoint 2^19 and of the ceiling 2^20.
KSpan == 3

\* Longest input of the reshaper, in profile rows.
MaxRows == 3

\* Number of entries of the endpoints dictionary the run iterates over.
NumEndpoints == 2

\* Largest total the count endpoint reports.
MaxCount == 250

(***************************************************************************)
(* Program constants.                                                      *)
(***************************************************************************)
\* server.py:105  max_page = 2 ** 20
MAX_PAGE == 1048576

\* server.py:154  page size of (data_count + 99) // 100 and of _limit=100
PAGE_SIZE == 100

VARIABLES
    \* ---- binary_page_search (server.py:104-120) ----
    source,       \* the remote source probed: "idle", "monotone" or "arbitrary"
    boundary,     \* K of a monotone source: pages < K hold records, pages >= K none
    spc,          \* position in binary_page_search: "idle", "loop", "done"
    min_page,     \* local min_page
    max_page,     \* local max_page
    mid_page,     \* local mid_page of the last probe (-1 before the first)
    response,     \* local response of the last probe
    prev_mid,     \* history: the probe before the last one (-1 when none)
    probes,       \* history: number of probes made
    all_failed,   \* history: every probe so far answered a status other than 200
    returned,     \* value returned by binary_page_search (-1 before it returns)
    \* ---- transform_data (server.py:241-273) ----
    rpc,          \* position of the reshaper: "idle", "call", "done"
    data_file,    \* the CSV file at data_file_path
    input_rows,   \* history: the rows of data_file when transform_data was called
    transformed,  \* what transform_data returned
    \* ---- the run (server.py:14-348) ----
    pc,             \* position of the script: "idle", "token", "endpoint",
                    \* "download", "merge", "transform", "export", "exited"
    exit_status,    \* -1 while running, then the process exit status
    token_response, \* the answer to the token request
    stdout,         \* kinds of diagnostic messages printed
    stderr,         \* kinds of messages printed to the error stream
    ep,             \* index of the current entry of the loop being run
    count_data,     \* count_response.json() of the current endpoint
    total_pages,    \* total_pages of the current endpoint
    current_page,   \* current_page of the download loop
    dirs,           \* folders created under data_directory
    files,          \* folder -> the page files written, in page order
    merged,         \* folder -> the file <folder>_merged.csv
    transformed_data_companies, \* "unset", "None" or "table"
    tables,         \* folders whose table was written to the database
    used_fallback,  \* history: folders counted by binary_page_search
    requested,      \* history: folder -> the pages requested by the download loop
    failed_page,    \* history: folder -> the page whose request failed, or -1
    ops,            \* history: kinds of operations performed after the token request
    merge_calls,    \* history: folders merge_csv_files returned for
    export_calls    \* history: folders export_merged_csv_to_postgresql returned for

searchVars == <<source, boundary, spc, min_page, max_page, mid_page, response,
                prev_mid, probes, all_failed, returned>>

reshapeVars == <<rpc, data_file, input_rows, transformed>>

runVars == <<pc, exit_status, token_response, stdout, stderr, ep, count_data,
             total_pages, current_page, dirs, files, merged,
             transformed_data_companies, tables, used_fallback, requested,
             failed_page, ops, merge_calls, export_calls>>

vars == <<searchVars, reshapeVars, runVars>>

(***************************************************************************)
(* HTTP responses to a page request.  status_code is the HTTP status,      *)
(* response the number of records of response.json()["response"] (0 for    *)
(* an empty list, 1 standing for any non-empty list).                      *)
(***************************************************************************)
NoResponse == [status_code |-> 0, response |-> 0]
EmptyPage == [status_code |-> 200, response |-> 0]
NonEmptyPage == [status_code |-> 200, response |-> 1]
FailedRequest == [status_code |-> 500, response |-> 0]
PageResponses == {EmptyPage, NonEmptyPage, FailedRequest}

\* What a monotone source with boundary K answers for page p.
MonotonePage(K, p) == IF p < K THEN NonEmptyPage ELSE EmptyPage

\* Mutant of MidPage: the midpoint rounded up instead of down.
MidPage_RoundUp(lo, hi) == (lo + hi + 1) \div 2

\* server.py:108  mid_page = (min_page + max_page) // 2
MidPage(lo, hi) == (lo + hi) \div 2

\* Mutant of ProbeSaysEmpty: the status code is not looked at.
ProbeSaysEmpty_IgnoresStatus(r) == r.response = 0

\* server.py:115  response.status_code == 200 and not response.json()["response"]
ProbeSaysEmpty(r) == r.status_code = 200 /\ r.response = 0

\* Mutant of NarrowBounds: an empty midpoint is excluded from the range.
NarrowBounds_DropsMid(lo, hi, mid, r) ==
    IF ProbeSaysEmpty(r) THEN <<lo, mid - 1>> ELSE <<mid + 1, hi>>

\* Mutant of NarrowBounds: the two branches are swapped.
NarrowBounds_Swapped(lo, hi, mid, r) ==
    IF ProbeSaysEmpty(r) THEN <<mid + 1, hi>> ELSE <<lo, mid>>

\* server.py:115-118  the new <<min_page, max_page>> after probing mid with answer r
NarrowBounds(lo, hi, mid, r) ==
    IF ProbeSaysEmpty(r) THEN <<lo, mid>> ELSE <<mid + 1, hi>>

(***************************************************************************)
(* The Profile Reshaper: transform_data(data_file, desired_columns), the   *)
(* second definition (server.py:241-273), which replaces the first         *)
(* (server.py:123-137) before anything calls it.                           *)
(*                                                                         *)
(* A CSV file is [exists, columns, rows]; a file that holds no column      *)
(* line (what DataFrame().to_csv writes) has columns = {}.  A cell that    *)
(* is empty in the file is read by pd.read_csv as NaN: "NaN" for a text    *)
(* cell, 0 for a link_id.                                                  *)
(***************************************************************************)
NoFile == [exists |-> FALSE, columns |-> {}, rows |-> <<>>]
EmptyCsv == [exists |-> TRUE, columns |-> {}, rows |-> <<>>]

\* server.py:134  desired_columns of the first definition of transform_data
AllowList == {"Partner", "Office_Responsible", "Department"}

\* server.py:278  desired_columns_companies
desired_columns_companies == {"link_id", "field_name", "value"}

\* The cells of the model's profile rows.
LinkIds == {0, 1, 2}
FieldNames == {"NaN", "Partner", "Industry"}
Values == {"NaN", "A", "Z"}
ProfileRows == [link_id : LinkIds, field_name : FieldNames, value : Values]

RowSeqs == UNION {[1 .. n -> ProfileRows] : n \in 0 .. MaxRows}

\* The value transform_data returns when it skips the transformation.
None == [ok |-> FALSE, index |-> {}, columns |-> {}, cell |-> <<>>]

\* Row numbers of the rows of group <<id, name>>, NaN keys left out
\* (DataFrame.groupby drops the rows whose key is NaN).
GroupRows(rows, id, name) ==
    {i \in 1 .. Len(rows) :
        /\ rows[i].link_id = id /\ id # 0
        /\ rows[i].field_name = name /\ name # "NaN"}

\* Mutant of AggFirst: the last value of the group instead of the first.
AggFirst_Last(rows, g) ==
    LET present == {i \in g : rows[i].value # "NaN"}
    IN  IF present = {} THEN "NaN"
        ELSE rows[CHOOSE i \in present : \A j \in present : j <= i].value

\* server.py:263-264  aggfunc='first': the first value of the group that is
\* not NaN, NaN when the group has none.
AggFirst(rows, g) ==
    LET present == {i \in g : rows[i].value # "NaN"}
    IN  IF present = {} THEN "NaN"
        ELSE rows[CHOOSE i \in present : \A j \in present : i <= j].value

\* server.py:263-264  pd.pivot_table(index=['link_id'], columns='field_name',
\* values='value', aggfunc='first'): group, aggregate, drop the groups whose
\* aggregate is NaN (dropna=True), unstack the attribute names into columns.
PivotTable(rows) ==
    LET groups == {<<rows[i].link_id, rows[i].field_name>> : i \in 1 .. Len(rows)}
        kept == {k \in groups :
                    /\ GroupRows(rows, k[1], k[2]) # {}
                    /\ AggFirst(rows, GroupRows(rows, k[1], k[2])) # "NaN"}
        ids == {k[1] : k \in kept}
        names == {k[2] : k \in kept}
    IN  [ok |-> TRUE,
         index |-> ids,
         columns |-> names,
         cell |-> [c \in ids \X names |->
                      IF c \in kept
                      THEN AggFirst(rows, GroupRows(rows, c[1], c[2]))
                      ELSE "NaN"]]

\* server.py:252-273  the value returned by transform_data: None when the
\* file cannot be read (missing, or no columns to parse) or lacks one of
\* desired_columns, the pivot table otherwise.
TransformResult(file, desired_columns) ==
    IF ~file.exists \/ file.columns = {} THEN None
    ELSE IF ~(desired_columns \subseteq file.columns) THEN None
    ELSE PivotTable(file.rows)

RECURSIVE SortedIds(_)
\* The ids of a set in increasing order (pivot_table sorts its index).
SortedIds(S) ==
    IF S = {} THEN <<>>
    ELSE LET m == CHOOSE x \in S : \A y \in S : x <= y
         IN  <<m>> \o SortedIds(S \ {m})

\* server.py:264,267  reset_index() and to_csv(data_file, index=False): the
\* file the pivot table is written back to.
PivotCsv(t) ==
    [exists |-> TRUE,
     columns |-> {"link_id"} \cup t.columns,
     rows |-> [i \in 1 .. Cardinality(t.index) |->
                 [link_id |-> SortedIds(t.index)[i],
                  cells |-> [n \in t.columns |-> t.cell[<<SortedIds(t.index)[i], n>>]]]]]

\* The reshaper's variables while it is not running.
ReshapeIdle ==
    /\ rpc = "idle"
    /\ data_file = NoFile
    /\ input_rows = <<>>
    /\ transformed = None

SearchIdle ==
    /\ source = "idle"
    /\ boundary = -1
    /\ spc = "idle"
    /\ min_page = 0
    /\ max_page = 0
    /\ mid_page = -1
    /\ response = NoResponse
    /\ prev_mid = -1
    /\ probes = 0
    /\ all_failed = TRUE
    /\ returned = -1

(***************************************************************************)
(* The run: endpoints, token, count, download, merge, load.                *)
(* Requests always get an answer with a JSON body of the expected shape:   *)
(* transport errors and malformed bodies are outside the model, and so is  *)
(* a failure of the database.                                              *)
(***************************************************************************)
\* server.py:27-48  the folder names of the endpoints dictionary, in order
AllEndpoints ==
    <<"Staff", "Rates", "Jobs", "Invoices", "Companies", "Issues",
      "Affiliations", "Milestones", "Contracts", "Company Profiles",
      "Issues Profiles", "Jobs Profiles", "Expenses", "Contracts Profiles",
      "Contract Periods", "Activities", "Tasks", "Groups", "Memberships">>

\* server.py:326-344  the folders loaded into the database, in order
AllExports ==
    <<"Invoices", "Staff", "Jobs", "Expenses", "Rates", "Activities",
      "Companies", "Affiliations", "Issues", "Milestones", "Contracts",
      "Contracts Profiles", "Company Profiles", "Issues Profiles",
      "Jobs Profiles", "Tasks", "Memberships", "Groups", "Contract Periods">>

\* The entries of the dictionary the model keeps, the first NumEndpoints of:
ModelledFirst ==
    <<"Company Profiles", "Contracts Profiles", "Expenses", "Staff",
      "Invoices", "Rates", "Jobs", "Companies", "Issues", "Affiliations",
      "Milestones", "Contracts", "Issues Profiles", "Jobs Profiles",
      "Contract Periods", "Activities", "Tasks", "Groups", "Memberships">>

Folders == {ModelledFirst[i] : i \in 1 .. NumEndpoints}
InFolders(f) == f \in Folders

\* server.py:141  endpoints.items(), restricted to the modelled folders
endpoints == SelectSeq(AllEndpoints, InFolders)

\* server.py:326-344  the export calls, restricted to the modelled folders
exports == SelectSeq(AllExports, InFolders)

\* server.py:65  the answers to the token request
TokenResponses ==
    {[status_code |-> 200, access_token |-> "token"],
     [status_code |-> 200, access_token |-> ""],
     [status_code |-> 401, access_token |-> ""]}

\* Mutant of TokenRefused: a missing access token goes unnoticed.
TokenRefused_StatusOnly(r) == r.status_code # 200

\* server.py:67,74  the token request failed or brought no access token
TokenRefused(r) == r.status_code # 200 \/ r.access_token = ""

\* server.py:149  count_response.json(): with or without the "response" key,
\* with or without its "count" (count = -1 when there is none)
NoCountData == [response |-> FALSE, has_count |-> FALSE, count |-> -1]
CountSamples ==
    {c \in 0 .. MaxCount : c % PAGE_SIZE \in {0, 1, PAGE_SIZE \div 2, PAGE_SIZE - 1}}
CountResponses ==
    {NoCountData, [response |-> TRUE, has_count |-> FALSE, count |-> -1]}
    \cup {[response |-> TRUE, has_count |-> TRUE, count |-> c] : c \in CountSamples}

\* server.py:152  "response" in count_data and "count" in count_data["response"]
HasCount(cd) == cd.response /\ cd.has_count

\* Mutant of PagesOfCount: the division rounds down.
PagesOfCount_RoundsDown(data_count) == data_count \div PAGE_SIZE

\* server.py:154  total_pages = (data_count + 99) // 100
PagesOfCount(data_count) == (data_count + 99) \div PAGE_SIZE

RECURSIVE BinaryPageSearch(_, _, _)
\* server.py:104-120  binary_page_search run to its return against a
\* monotone source with boundary K, from the bounds <<lo, hi>>
BinaryPageSearch(K, lo, hi) ==
    IF lo < hi
    THEN LET mid == MidPage(lo, hi)
             nb == NarrowBounds(lo, hi, mid, MonotonePage(K, mid))
         IN  BinaryPageSearch(K, nb[1], nb[2])
    ELSE lo

\* Boundaries of the sources counted by the fallback in the run.
RunBoundaries == 0 .. PagesOfCount(MaxCount)

\* server.py:181  response.status_code == 200
PageFetched(r) == r.status_code = 200

\* server.py:183-189  the page file written for a 200 answer: a DataFrame of
\* no records is written as a file with no column line
PageFile(r) == IF r.response = 0 THEN "empty" ELSE "rows"

\* server.py:212-232  the merged file: the concatenation of the page files
\* that can be read (EmptyDataError is passed over); no readable page gives
\* an empty DataFrame, written as a file with no column line
MergedFile(pages) ==
    IF \E i \in 1 .. Len(pages) : pages[i] = "rows" THEN "rows" ELSE "empty"

\* server.py:310  pd.read_csv(merged_file_path) raises EmptyDataError on a
\* file with no column line
ReadCsvRaises(file) == file = "empty"

\* The run's variables before the token request, at position p.
RunState(p) ==
    /\ pc = p
    /\ exit_status = -1
    /\ token_response = [status_code |-> 0, access_token |-> ""]
    /\ stdout = {}
    /\ stderr = {}
    /\ ep = 0
    /\ count_data = NoCountData
    /\ total_pages = 0
    /\ current_page = 0
    /\ dirs = {}
    /\ files = [f \in Folders |-> <<>>]
    /\ merged = [f \in Folders |-> "missing"]
    /\ transformed_data_companies = "unset"
    /\ tables = {}
    /\ used_fallback = {}
    /\ requested = [f \in Folders |-> <<>>]
    /\ failed_page = [f \in Folders |-> -1]
    /\ ops = {}
    /\ merge_calls = {}
    /\ export_calls = {}

\* The run's variables while the script is not running.
RunIdle == RunState("idle")

\* The boundaries K tried for the monotone source.
BoundarySamples ==
    (0 .. KSpan)
    \cup ((MAX_PAGE \div 2 - KSpan) .. (MAX_PAGE \div 2 + KSpan))
    \cup ((MAX_PAGE - KSpan) .. MAX_PAGE)

\* The answers the source can give to a probe of page p.
Answers(p) ==
    IF source = "monotone" THEN {MonotonePage(boundary, p)} ELSE PageResponses

InitSearch ==
    /\ source \in {"monotone", "arbitrary"}
    /\ boundary \in (IF source = "monotone" THEN BoundarySamples ELSE {-1})
    /\ spc = "loop"
    /\ min_page = 0
    /\ max_page = MAX_PAGE
    /\ mid_page = -1
    /\ response = NoResponse
    /\ prev_mid = -1
    /\ probes = 0
    /\ all_failed = TRUE
    /\ returned = -1
    /\ ReshapeIdle
    /\ RunIdle

\* server.py:107-118  one iteration of the while loop
SearchProbe ==
    /\ spc = "loop"
    /\ min_page < max_page
    /\ \E r \in Answers(MidPage(min_page, max_page)) :
        LET mid == MidPage(min_page, max_page)
            nb == NarrowBounds(min_page, max_page, mid, r)
        IN  /\ mid_page' = mid
            /\ response' = r
            /\ min_page' = nb[1]
            /\ max_page' = nb[2]
            /\ prev_mid' = mid_page
            /\ probes' = probes + 1
            /\ all_failed' = (all_failed /\ r.status_code # 200)
    /\ UNCHANGED <<source, boundary, spc, returned>>
    /\ UNCHANGED reshapeVars
    /\ UNCHANGED runVars

\* server.py:107,120  the loop condition fails and min_page is returned
SearchReturn ==
    /\ spc = "loop"
    /\ ~(min_page < max_page)
    /\ spc' = "done"
    /\ returned' = min_page
    /\ UNCHANGED <<source, boundary, min_page, max_page, mid_page, response,
                   prev_mid, probes, all_failed>>
    /\ UNCHANGED reshapeVars
    /\ UNCHANGED runVars

NextSearch == SearchProbe \/ SearchReturn

SpecSearch == InitSearch /\ [][NextSearch]_vars

\* The files transform_data is applied to.
InitReshape ==
    /\ SearchIdle
    /\ rpc = "call"
    /\ data_file \in
          {NoFile, EmptyCsv,
           [exists |-> TRUE, columns |-> {"link_id", "field_name"}, rows |-> <<>>]}
          \cup {[exists |-> TRUE, columns |-> desired_columns_companies, rows |-> rs] :
                   rs \in RowSeqs}
    /\ input_rows = data_file.rows
    /\ transformed = None
    /\ RunIdle

\* server.py:241-273  transform_data(data_file_path, desired_columns_companies)
TransformData ==
    /\ rpc = "call"
    /\ LET t == TransformResult(data_file, desired_columns_companies)
       IN  /\ transformed' = t
           /\ data_file' = IF t.ok THEN PivotCsv(t) ELSE data_file
    /\ rpc' = "done"
    /\ UNCHANGED input_rows
    /\ UNCHANGED searchVars
    /\ UNCHANGED runVars

NextReshape == TransformData

SpecReshape == InitReshape /\ [][NextReshape]_vars

(***************************************************************************)
(* The run of the script.                                                  *)
(***************************************************************************)
Init ==
    /\ SearchIdle
    /\ ReshapeIdle
    /\ RunState("token")

\* server.py:141,237  the for loop of endpoints goes to its next entry, or
\* ends and the loop at position `after` starts
NextEntry(position, after) ==
    IF ep < Len(endpoints)
    THEN pc' = position /\ ep' = ep + 1
    ELSE pc' = after /\ ep' = 1

\* Mutant of AfterFailedPage: the loop goes on with the same page.
AfterFailedPage_Continue == UNCHANGED <<pc, ep>>

\* server.py:195  break: the download loop is left for the next endpoint
AfterFailedPage == NextEntry("endpoint", "merge")

\* server.py:65-76  the token request; exit() ends the process with status 0
TokenRequest ==
    /\ pc = "token"
    /\ \E r \in TokenResponses :
          /\ token_response' = r
          /\ IF TokenRefused(r)
             THEN /\ stdout' = stdout \cup
                        {IF r.status_code # 200 THEN "token request failed"
                                                ELSE "token not obtained"}
                  /\ pc' = "exited"
                  /\ exit_status' = 0
                  /\ ep' = ep
             ELSE /\ stdout' = stdout
                  /\ pc' = "endpoint"
                  /\ exit_status' = exit_status
                  /\ ep' = 1
    /\ UNCHANGED <<stderr, count_data, total_pages, current_page, dirs, files,
                   merged, transformed_data_companies, tables, used_fallback,
                   requested, failed_page, ops, merge_calls, export_calls>>
    /\ UNCHANGED <<searchVars, reshapeVars>>

\* server.py:141-163  an endpoint's folder is created and its pages counted,
\* by the count endpoint or by binary_page_search
CountPages ==
    /\ pc = "endpoint"
    /\ \E cd \in CountResponses, K \in RunBoundaries :
          /\ HasCount(cd) => K = 0
          /\ count_data' = cd
          /\ IF HasCount(cd)
             THEN /\ total_pages' = PagesOfCount(cd.count)
                  /\ used_fallback' = used_fallback
                  /\ stdout' = stdout
             ELSE /\ total_pages' = BinaryPageSearch(K, 0, MAX_PAGE)
                  /\ used_fallback' = used_fallback \cup {endpoints[ep]}
                  /\ stdout' = stdout \cup {"count not provided"}
    /\ dirs' = dirs \cup {endpoints[ep]}
    /\ current_page' = 0
    /\ ops' = ops \cup {"count"}
    /\ pc' = "download"
    /\ UNCHANGED <<exit_status, token_response, stderr, ep, files, merged,
                   transformed_data_companies, tables, requested, failed_page,
                   merge_calls, export_calls>>
    /\ UNCHANGED <<searchVars, reshapeVars>>

\* server.py:165-195  one iteration of the download loop: the page is
\* requested, then written to its file, or the loop is left
FetchPage ==
    /\ pc = "download"
    /\ current_page < total_pages
    /\ \E r \in PageResponses :
          LET f == endpoints[ep]
          IN  /\ requested' = [requested EXCEPT ![f] = Append(@, current_page)]
              /\ IF PageFetched(r)
                 THEN /\ files' = [files EXCEPT ![f] = Append(@, PageFile(r))]
                      /\ current_page' = current_page + 1
                      /\ UNCHANGED <<stdout, failed_page, pc, ep>>
                 ELSE /\ stdout' = stdout \cup {"page request failed"}
                      /\ failed_page' = [failed_page EXCEPT ![f] = current_page]
                      /\ AfterFailedPage
                      /\ UNCHANGED <<files, current_page>>
    /\ ops' = ops \cup {"fetch"}
    /\ UNCHANGED <<exit_status, token_response, stderr, count_data, total_pages,
                   dirs, merged, transformed_data_companies, tables,
                   used_fallback, merge_calls, export_calls>>
    /\ UNCHANGED <<searchVars, reshapeVars>>

\* server.py:165  the download loop ends with every page fetched
DownloadDone ==
    /\ pc = "download"
    /\ ~(current_page < total_pages)
    /\ NextEntry("endpoint", "merge")
    /\ UNCHANGED <<exit_status, token_response, stdout, stderr, count_data,
                   total_pages, current_page, dirs, files, merged,
                   transformed_data_companies, tables, used_fallback,
                   requested, failed_page, ops, merge_calls, export_calls>>
    /\ UNCHANGED <<searchVars, reshapeVars>>

\* server.py:199-238  merge_csv_files for one endpoint
MergeCsvFiles ==
    /\ pc = "merge"
    /\ LET f == endpoints[ep]
       IN  /\ IF f \notin dirs
              THEN /\ stdout' = stdout \cup {"directory not found"}
                   /\ merged' = merged
              ELSE /\ stdout' = stdout
                   /\ merged' = [merged EXCEPT ![f] = MergedFile(files[f])]
           /\ merge_calls' = merge_calls \cup {f}
    /\ ops' = ops \cup {"merge"}
    /\ NextEntry("merge", "transform")
    /\ UNCHANGED <<exit_status, token_response, stderr, count_data, total_pages,
                   current_page, dirs, files, transformed_data_companies,
                   tables, used_fallback, requested, failed_page, export_calls>>
    /\ UNCHANGED <<searchVars, reshapeVars>>

\* server.py:241-279  transform_data on the merged Company Profiles file: a
\* file that is missing, has no column line or lacks a desired column is
\* skipped (None); otherwise the pivot table replaces the file's content
TransformCompanies ==
    /\ pc = "transform"
    /\ LET file == IF "Company Profiles" \in Folders
                   THEN merged["Company Profiles"] ELSE "missing"
       IN  IF file = "rows"
           THEN /\ transformed_data_companies' \in {"table", "None"}
                /\ stdout' = IF transformed_data_companies' = "None"
                             THEN stdout \cup {"skipping transformation"}
                             ELSE stdout
           ELSE /\ transformed_data_companies' = "None"
                /\ stdout' = stdout \cup {"skipping transformation"}
    /\ ops' = ops \cup {"reshape"}
    /\ pc' = "export"
    /\ ep' = 1
    /\ UNCHANGED <<exit_status, token_response, stderr, count_data, total_pages,
                   current_page, dirs, files, merged, tables, used_fallback,
                   requested, failed_page, merge_calls, export_calls>>
    /\ UNCHANGED <<searchVars, reshapeVars>>

\* server.py:292-348  export_merged_csv_to_postgresql for one folder; an
\* exception it raises reaches the top-level except, which exits with 1
ExportMergedCsv ==
    /\ pc = "export"
    /\ LET f == exports[ep]
       IN  IF merged[f] # "missing" /\ ReadCsvRaises(merged[f])
           THEN /\ stderr' = stderr \cup {"Error"}
                /\ pc' = "exited"
                /\ exit_status' = 1
                /\ UNCHANGED <<stdout, tables, export_calls, ep>>
           ELSE /\ IF merged[f] = "missing"
                   THEN /\ stdout' = stdout \cup {"merged file not found"}
                        /\ tables' = tables
                   ELSE /\ stdout' = stdout
                        /\ tables' = tables \cup {f}
                /\ export_calls' = export_calls \cup {f}
                /\ IF ep < Len(exports)
                   THEN pc' = "export" /\ ep' = ep + 1 /\ exit_status' = exit_status
                   ELSE pc' = "exited" /\ ep' = ep /\ exit_status' = 0
                /\ stderr' = stderr
    /\ ops' = ops \cup {"load"}
    /\ UNCHANGED <<token_response, count_data, total_pages, current_page, dirs,
                   files, merged, transformed_data_companies, used_fallback,
                   requested, failed_page, merge_calls>>
    /\ UNCHANGED <<searchVars, reshapeVars>>

Next ==
    \/ TokenRequest
    \/ CountPages
    \/ FetchPage
    \/ DownloadDone
    \/ MergeCsvFiles
    \/ TransformCompanies
    \/ ExportMergedCsv

Spec == Init /\ [][Next]_vars

(***************************************************************************)
(* Claims about the run, checked under Spec.                               *)
(***************************************************************************)
\* C2: when the count endpoint reports a total, the number of pages of the
\* download loop is ceil(total / 100): 250 gives 3, 0 gives 0, 100 gives 1;
\* binary_page_search is used only when the count answer has no count.
C2_CeilOfCount ==
    /\ HasCount(count_data) =>
          /\ count_data.count >= 0
          /\ total_pages * 100 >= count_data.count
          /\ (total_pages - 1) * 100 < count_data.count
          /\ count_data.count = 250 => total_pages = 3
          /\ count_data.count = 0 => total_pages = 0
          /\ count_data.count = 100 => total_pages = 1
    /\ pc = "download" =>
          (endpoints[ep] \in used_fallback <=> ~count_data.has_count)

C2_Witness ==
    /\ pc = "download"
    /\ count_data.has_count
    /\ count_data.count = 250
    /\ total_pages = 3
    /\ current_page = 3
    /\ used_fallback # {}

\* C5: the download loop requests the pages of an endpoint one at a time in
\* the order 0, 1, 2, ... below total_pages; when the request for page p is
\* answered with a status other than 200 no further page of that endpoint
\* is requested, the files written for pages 0 .. p-1 stay as they are, and
\* the run goes on with the next endpoint.
C5_PageFailureStopsEndpoint ==
    /\ [] \A f \in Folders :
            /\ requested[f] = [i \in 1 .. Len(requested[f]) |-> i - 1]
            /\ (pc = "download" /\ endpoints[ep] = f) =>
                  Len(requested[f]) <= total_pages
            /\ failed_page[f] >= 0 =>
                  /\ Len(requested[f]) = failed_page[f] + 1
                  /\ Len(files[f]) = failed_page[f]
                  /\ ~(pc = "download" /\ endpoints[ep] = f)
    /\ [] (pc \in {"merge", "transform", "export"} => dirs = Folders)
    /\ [][ /\ \A f \in Folders :
                /\ failed_page[f] >= 0 =>
                      (files'[f] = files[f] /\ requested'[f] = requested[f])
                /\ Len(files'[f]) >= Len(files[f])
                /\ SubSeq(files'[f], 1, Len(files[f])) = files[f]
           /\ failed_page' # failed_page =>
                /\ exit_status' = -1
                /\ IF ep < Len(endpoints)
                   THEN pc' = "endpoint" /\ ep' = ep + 1
                   ELSE pc' = "merge"
         ]_vars

C5_Witness ==
    /\ pc = "download"
    /\ ep = 2
    /\ failed_page[endpoints[1]] = 1
    /\ files[endpoints[1]] = <<"rows">>
    /\ requested[endpoints[1]] = <<0, 1>>
    /\ current_page = 2

\* C6: when the token request is answered with a status other than 200 or
\* without an access token, the run halts at once: a diagnostic message is
\* printed and no count request, page fetch, merge, reshape or database
\* load is performed afterwards.
C6_TokenFailureHalts ==
    (pc # "token" /\ (token_response.status_code # 200
                        \/ token_response.access_token = "")) =>
        /\ pc = "exited"
        /\ ~ENABLED Next
        /\ stdout = {IF token_response.status_code # 200
                     THEN "token request failed" ELSE "token not obtained"}
        /\ ops = {}
        /\ dirs = {}
        /\ tables = {}
        /\ \A f \in Folders : files[f] = <<>> /\ merged[f] = "missing"

C6_Witness ==
    /\ pc = "exited"
    /\ token_response = [status_code |-> 200, access_token |-> ""]
    /\ stdout = {"token not obtained"}
    /\ ops = {}

\* C7: empty or missing inputs of the merge and load stages are skipped and
\* never fatal: whatever page files exist for an endpoint (none, only empty
\* ones), merging and loading it does not abort the run, and every later
\* endpoint is still merged and loaded.
C7_EmptyInputsNotFatal ==
    /\ exit_status # 1
    /\ (pc = "exited" /\ token_response.access_token # "") =>
          /\ merge_calls = Folders
          /\ export_calls = Folders

(***************************************************************************)
(* Claims about the reshaper, checked under SpecReshape.                   *)
(***************************************************************************)
\* The input rows of entity id with attribute name, in input order.
PairRows(id, name) ==
    {i \in 1 .. Len(input_rows) :
        input_rows[i].link_id = id /\ input_rows[i].field_name = name}

\* The pairs of the input whose keys are both present.
InputPairs ==
    {<<input_rows[i].link_id, input_rows[i].field_name>> : i \in 1 .. Len(input_rows)}
        \ {k \in LinkIds \X FieldNames : k[1] = 0 \/ k[2] = "NaN"}

\* C8 as stated: one output row per distinct entity id of the input, and
\* for every (entity id, attribute name) pair of the input the cell holds
\* the value of the first input row with that pair.
C8_FirstRowWins ==
    (rpc = "done" /\ transformed.ok) =>
        /\ transformed.index = {input_rows[i].link_id : i \in 1 .. Len(input_rows)} \ {0}
        /\ \A k \in InputPairs :
              /\ k \in DOMAIN transformed.cell
              /\ transformed.cell[k] =
                    input_rows[CHOOSE i \in PairRows(k[1], k[2]) :
                                  \A j \in PairRows(k[1], k[2]) : i <= j].value

\* C8 amended: the reshaper produces exactly one output row per distinct
\* entity id that has an input row whose attribute name and value are both
\* present (not NaN); for every (entity id, attribute name) pair the cell
\* holds the first value, in input order, that is present among the rows of
\* that pair; a pair with no such row has no value.
C8_FirstPresentValueWins ==
    (rpc = "done" /\ transformed.ok) =>
        LET present(k) == {i \in PairRows(k[1], k[2]) : input_rows[i].value # "NaN"}
            valued == {k \in InputPairs : present(k) # {}}
        IN  /\ transformed.index = {k[1] : k \in valued}
            /\ transformed.columns = {k[2] : k \in valued}
            /\ DOMAIN transformed.cell = transformed.index \X transformed.columns
            /\ \A k \in valued :
                  transformed.cell[k] =
                      input_rows[CHOOSE i \in present(k) :
                                    \A j \in present(k) : i <= j].value
            /\ \A k \in (transformed.index \X transformed.columns) \ valued :
                  transformed.cell[k] = "NaN"

C8_Witness ==
    /\ rpc = "done"
    /\ transformed.ok
    /\ Len(input_rows) = 3
    /\ input_rows[1] = [link_id |-> 1, field_name |-> "Partner", value |-> "NaN"]
    /\ input_rows[2] = [link_id |-> 1, field_name |-> "Partner", value |-> "A"]
    /\ input_rows[3] = [link_id |-> 1, field_name |-> "Partner", value |-> "Z"]
    /\ transformed.index = {1}
    /\ transformed.cell[<<1, "Partner">>] = "A"

\* C9: the attribute columns of the Profile Table produced by the reshaper
\* the run executes are a subset of the allow-list (Partner,
\* Office_Responsible, Department); an allow-listed attribute that does not
\* occur in the input is omitted without an error.
C9_OnlyAllowListed ==
    (rpc = "done" /\ transformed.ok) =>
        /\ transformed.columns \subseteq AllowList
        /\ \A n \in AllowList :
              (\A i \in 1 .. Len(input_rows) : input_rows[i].field_name # n)
                  => n \notin transformed.columns

(***************************************************************************)
(* Claims about binary_page_search, checked under SpecSearch.              *)
(***************************************************************************)
\* A step of the specification that is a probe.
IsProbeStep == probes' = probes + 1

\* C1: when every probe answers 200 and the source is monotone with boundary
\* K (pages below K non-empty, pages from K on empty), 0 <= K <= 2^20,
\* binary_page_search returns exactly K.
C1_ReturnsBoundary ==
    (source = "monotone" /\ spc = "done") =>
        (boundary \in 0 .. MAX_PAGE /\ returned = boundary)

C1_Witness ==
    /\ source = "monotone"
    /\ spc = "done"
    /\ boundary = MAX_PAGE \div 2 + 1
    /\ returned = boundary
    /\ probes > 1

\* C3 as stated: each probed midpoint is >= the previously probed one, and
\* the value returned is the first page index whose fetch returns an empty
\* record set.
C3_ProbesIncrease ==
    /\ (probes >= 2) => (mid_page >= prev_mid)
    /\ (source = "monotone" /\ spc = "done") =>
          /\ ProbeSaysEmpty(MonotonePage(boundary, returned))
          /\ \A p \in 0 .. (returned - 1) :
                ~ProbeSaysEmpty(MonotonePage(boundary, p))

\* C3 amended: the probes are not monotone.  A probe that follows an empty
\* answer is strictly below it and a probe that follows any other answer is
\* strictly above it; min_page never decreases and max_page never increases;
\* and for a monotone source answering 200 the value returned is the first
\* page index whose fetch returns an empty record set.
C3_ProbeOrder ==
    [][ /\ (IsProbeStep /\ probes >= 1) =>
              IF ProbeSaysEmpty(response)
              THEN mid_page' < mid_page
              ELSE mid_page' > mid_page
        /\ min_page' >= min_page
        /\ max_page' <= max_page
        /\ (source = "monotone" /\ spc' = "done") =>
              /\ ProbeSaysEmpty(MonotonePage(boundary, returned'))
              /\ \A p \in 0 .. (returned' - 1) :
                    ~ProbeSaysEmpty(MonotonePage(boundary, p))
      ]_vars

C3_Witness ==
    /\ source = "monotone"
    /\ spc = "done"
    /\ boundary = 0
    /\ returned = 0
    /\ probes >= 2
    /\ mid_page < prev_mid

\* C4: a probe that fails (status other than 200) changes the search state
\* exactly as a probe that returns a non-empty page does: min_page becomes
\* mid_page + 1 and max_page is unchanged; only a 200 answer with an empty
\* record set lowers max_page.  If every probe fails, the ceiling 2^20 is
\* returned.
C4_FailureIsNonEmpty ==
    /\ [][ IsProbeStep =>
             /\ (response'.status_code # 200 \/ response'.response # 0) =>
                   (min_page' = mid_page' + 1 /\ max_page' = max_page)
             /\ (max_page' < max_page) => (response' = EmptyPage)
             /\ mid_page' = MidPage(min_page, max_page)
         ]_vars
    /\ [] ((spc = "done" /\ all_failed) => returned = MAX_PAGE)

C4_Witness ==
    /\ spc = "done"
    /\ all_failed
    /\ probes = 20
    /\ response = FailedRequest
    /\ returned = MAX_PAGE

\* C10: binary_page_search terminates whatever the probes answer: before
\* every probe 0 <= min_page <= max_page <= 2^20, every probed index lies in
\* [min_page, max_page), each probe strictly shrinks max_page - min_page, the
\* loop ends with min_page = max_page after at most 21 probes, and the value
\* returned lies in 0 .. 2^20.
C10_Terminates ==
    /\ [] /\ 0 <= min_page /\ min_page <= max_page /\ max_page <= MAX_PAGE
          /\ probes <= 21
          /\ spc = "done" \/ ENABLED NextSearch
          /\ spc = "done" =>
                /\ min_page = max_page
                /\ returned = min_page
                /\ returned \in 0 .. MAX_PAGE
    /\ [][ IsProbeStep =>
             /\ min_page <= mid_page' /\ mid_page' < max_page
             /\ max_page' - min_page' < max_page - min_page
         ]_vars

C10_Witness ==
    /\ source = "arbitrary"
    /\ spc = "done"
    /\ probes = 21
    /\ ~all_failed
    /\ returned \in 0 .. MAX_PAGE

====
